---- MODULE Spec2Model ----
(***************************************************************************)
(* folium.plugins.Geocoder (src/folium/plugins/geocoder.py).               *)
(*                                                                         *)
(* Build side (Python): Geocoder.__init__ normalises the caller's          *)
(* arguments into the options bag; rendering substitutes get_name(), the   *)
(* JSON form of the bag and the parent's name into the script template.    *)
(* Page side (JavaScript): the statements of the template, executed in     *)
(* order by the page's script engine against the page-global provider      *)
(* registry L.Control.Geocoder.                                            *)
(***************************************************************************)
EXTENDS Naturals, Sequences, FiniteSets, TLC

VARIABLES controls, fragment, failed, phase, cur, pc, js, registry

vars == <<controls, fragment, failed, phase, cur, pc, js, registry>>

(***************************************************************************)
(* Bounds of the model.                                                    *)
(***************************************************************************)
\* controls built for one page
MaxControls == 2
\* extra keyword arguments (**kwargs) of one constructor call
MaxExtra == 2

(***************************************************************************)
(* Python values, tagged with their type: <<type, payload>>.               *)
(***************************************************************************)
None == <<"NoneType", "None">>

PyBool(b) == <<"bool", IF b THEN "True" ELSE "False">>

PyStr(s) == <<"str", s>>

PyDict(d) == <<"dict", d>>

\* an object json.dumps has no encoding for
PyObject(o) == <<"object", o>>

PyBools == {PyBool(TRUE), PyBool(FALSE)}

(***************************************************************************)
(* Keyword names.  A keyword is held split at its underscores, as          *)
(* key.split("_") sees it: service_url is <<"service", "url">>.            *)
(***************************************************************************)
RECURSIVE JoinWith(_, _)
JoinWith(sep, words) ==
    IF Len(words) = 1 THEN words[1]
    ELSE words[1] \o sep \o JoinWith(sep, Tail(words))

\* the keyword as the caller spelled it
Spelling(key) == JoinWith("_", key)

\* str.capitalize on the words the model's keywords are made of
Capitalized == ("message" :> "Message") @@ ("url" :> "Url")

Capitalize(w) == Capitalized[w]

RECURSIVE CapitalizeAll(_)
CapitalizeAll(words) ==
    IF words = <<>> THEN ""
    ELSE Capitalize(words[1]) \o CapitalizeAll(Tail(words))

\* folium.utilities.camelize:
\*   "".join(x.capitalize() if i > 0 else x for i, x in enumerate(key.split("_")))
Camelize(key) == key[1] \o CapitalizeAll(Tail(key))

EmptyBag == [k \in {} |-> None]

\* folium.utilities.parse_options:
\*   {camelize(key): value for key, value in kwargs.items() if value is not None}
\* pairs is the keyword dictionary in insertion order; a later pair that
\* camelizes to a key already written replaces its value.
RECURSIVE ParseOptions(_)
ParseOptions(pairs) ==
    IF pairs = <<>> THEN EmptyBag
    ELSE LET n    == Len(pairs)
             rest == ParseOptions(SubSeq(pairs, 1, n - 1))
             last == pairs[n]
         IN  IF last[2] = None THEN rest
             ELSE (Camelize(last[1]) :> last[2]) @@ rest

(***************************************************************************)
(* Geocoder.__init__                                                       *)
(***************************************************************************)
\* the keyword arguments __init__ hands to parse_options, in call order
NamedPairs(cfg) ==
    << << <<"collapsed">>, cfg.collapsed >>,
       << <<"position">>, cfg.position >>,
       << <<"defaultMarkGeocode">>, cfg.add_marker >>,
       << <<"geocodeProvider">>, cfg.geocodeProvider >>,
       << <<"serviceUrl">>, cfg.serviceUrl >>,
       << <<"geocodeFunction">>, cfg.geocodeFunction >>,
       << <<"resultsHandlerFunction">>, cfg.resultsHandlerFunction >> >>

\* Options, were add_marker stored under the key addMarker
OptionsAddMarkerKey(cfg) ==
    LET pairs  == [NamedPairs(cfg) EXCEPT ![3] = << <<"addMarker">>, cfg.add_marker >>]
        parsed == ParseOptions(pairs \o cfg.kwargs)
    IN  IF cfg.geocodeProviderOptions # None
        THEN ("geocodeProviderOptions" :> cfg.geocodeProviderOptions) @@ parsed
        ELSE parsed

\* Options, were a position outside the four corners replaced by the default
OptionsDefaultPosition(cfg) ==
    LET ok     == cfg.position \in {PyStr("topleft"), PyStr("topright"),
                                    PyStr("bottomleft"), PyStr("bottomright")}
        pairs  == [NamedPairs(cfg) EXCEPT
                     ![2] = << <<"position">>, IF ok THEN cfg.position ELSE PyStr("topright") >>]
        parsed == ParseOptions(pairs \o cfg.kwargs)
    IN  IF cfg.geocodeProviderOptions # None
        THEN ("geocodeProviderOptions" :> cfg.geocodeProviderOptions) @@ parsed
        ELSE parsed

\* Options, were **kwargs not handed to parse_options
OptionsDropKwargs(cfg) ==
    LET parsed == ParseOptions(NamedPairs(cfg))
    IN  IF cfg.geocodeProviderOptions # None
        THEN ("geocodeProviderOptions" :> cfg.geocodeProviderOptions) @@ parsed
        ELSE parsed

\* parse_options(defaultMarkGeocode=add_marker, ..., **kwargs) raises TypeError
\* (multiple values for a keyword argument) when kwargs repeats a keyword
DuplicateKeyword(cfg) ==
    \E a \in 1..Len(NamedPairs(cfg)), b \in 1..Len(cfg.kwargs) :
      NamedPairs(cfg)[a][1] = cfg.kwargs[b][1]

\* self.options after __init__
Options(cfg) ==
    LET parsed == ParseOptions(NamedPairs(cfg) \o cfg.kwargs)
    IN  IF cfg.geocodeProviderOptions # None
        THEN ("geocodeProviderOptions" :> cfg.geocodeProviderOptions) @@ parsed
        ELSE parsed

(***************************************************************************)
(* Inputs.                                                                 *)
(***************************************************************************)
Positions == {"topleft", "topright", "bottomleft", "bottomright"}

PositionInputs == {PyStr("topright"), PyStr("center")}

Providers == {"nominatim", "photon"}

UrlText == "https://x/geocode"

FunctionText == "function(q,cb){cb([])}"

HandlerText == "function(d){return d}"

\* extra keywords: one kept as spelled, one with an underscore, one that is the
\* camel-case form of another, one that is camel-cased to a named key, and one
\* that __init__ passes to parse_options itself
ExtraKeys == { <<"placeholder">>, <<"error", "message">>, <<"errorMessage">>,
               <<"service", "url">>, <<"defaultMarkGeocode">> }

\* an extra keyword is given null or a value that tells which keyword gave it
ExtraPairs ==
    UNION { { <<k, None>>, <<k, PyStr("value of " \o Spelling(k))>> } : k \in ExtraKeys }

\* keyword dictionaries of at most n entries
RECURSIVE KwargsUpTo(_)
KwargsUpTo(n) ==
    IF n = 0 THEN { <<>> }
    ELSE LET shorter == KwargsUpTo(n - 1)
         IN  shorter \cup
             { Append(kw, pair) : kw \in { s \in shorter : Len(s) = n - 1 },
                                  pair \in ExtraPairs }

\* the keywords of a dictionary are distinct
DistinctKeys(kw) == \A a, b \in 1..Len(kw) : a # b => kw[a][1] # kw[b][1]

Kwargs == { kw \in KwargsUpTo(MaxExtra) : DistinctKeys(kw) }

DefaultConfig ==
    [collapsed |-> PyBool(FALSE), position |-> PyStr("topright"),
     add_marker |-> PyBool(TRUE), geocodeProvider |-> PyStr("nominatim"),
     geocodeProviderOptions |-> None, serviceUrl |-> None,
     geocodeFunction |-> None, resultsHandlerFunction |-> None,
     kwargs |-> <<>>]

\* every call of the constructor the model makes
ConfigsWith(kwargsSet) ==
    [collapsed : PyBools,
     position : PositionInputs,
     add_marker : PyBools,
     geocodeProvider : {PyStr(p) : p \in Providers},
     geocodeProviderOptions : {None, PyDict("{apiKey: k}"), PyObject("set()")},
     serviceUrl : {None, PyStr(UrlText)},
     geocodeFunction : {None, PyStr(FunctionText)},
     resultsHandlerFunction : {None, PyStr(HandlerText)},
     kwargs : kwargsSet]

Configs == ConfigsWith(Kwargs)

\* the four constructor calls the page specification draws from: built-in or
\* custom provider, provider options absent or not encodable
PageConfigs ==
    { [DefaultConfig EXCEPT !.serviceUrl = c[1], !.geocodeFunction = c[2],
                            !.geocodeProviderOptions = c[3]] :
        c \in { <<None, None, None>>,
                <<None, None, PyObject("set()")>>,
                <<PyStr(UrlText), PyStr(FunctionText), None>>,
                <<PyStr(UrlText), PyStr(FunctionText), PyObject("set()")>> } }

\* the calls the single-control specification draws from: no extra keywords
ControlConfigs == ConfigsWith({ <<>> })

\* branca.element.Element.__init__ draws self._id as 32 random hex digits
Ids == {"a1f3", "b2e4", "c3d5"}

\* names of the parent maps a control is rendered for
Parents == {"map_a", "map_b"}

(***************************************************************************)
(* Rendering: the substitutions of the template.                           *)
(***************************************************************************)
\* get_name(), were the name the same for every control
GetNameIgnoringId(c) == "geocoder"

\* this.get_name(): the element's type name, lower-cased, and its identifier
GetName(c) == (IF c.name = "Geocoder" THEN "geocoder" ELSE c.name) \o "_" \o c.id

\* the tojson filter on one value of the bag (json.dumps)
ToJson(v) ==
    CASE v[1] = "bool"     -> <<"boolean", IF v[2] = "True" THEN "true" ELSE "false">>
      [] v[1] = "str"      -> <<"string", v[2]>>
      [] v[1] = "dict"     -> <<"object", v[2]>>
      [] v[1] = "NoneType" -> <<"null", "null">>

\* json.dumps raises TypeError on a value it has no encoding for
Serializable(options) == \A k \in DOMAIN options : options[k][1] # "object"

\* {{ this.options|tojson }}
JsonOf(options) == [k \in DOMAIN options |-> ToJson(options[k])]

\* the text of the fragment: the template with its three substitutions made
Template(c, parent) ==
    [name |-> GetName(c), opts |-> JsonOf(c.options), parent |-> parent]

NoFragment == <<>>

Emitted(i) == fragment[i] # NoFragment

\* the names the fragment declares in the page's global scope
DeclaredNames(c) ==
    { "geocoderOpts_" \o GetName(c), "customGeocoderTemplate_" \o GetName(c),
      "geocoderName_" \o GetName(c), "customGeocoder_" \o GetName(c) }

\* the keys the fragment writes to L.Control.Geocoder
ClassKey(name) == "Custom_" \o name

FactoryKey(name) == "custom_" \o name

RegistryKeys(c) == { ClassKey(GetName(c)), FactoryKey(GetName(c)) }

(***************************************************************************)
(* JavaScript values and the state of one fragment's script.               *)
(***************************************************************************)
Undefined == <<"undefined", "">>

Native == <<"function", "[native code]">>

\* eval("opts[key] = " + text): the function the text denotes
Eval(v) == <<"function", v[2]>>

\* opts[key]: undefined when the key is missing
Get(opts, k) == IF k \in DOMAIN opts THEN opts[k] ELSE Undefined

NoClass == [serviceUrl |-> Undefined, geocode |-> Undefined]

NoProvider == [via |-> "", cls |-> "", geocode |-> Undefined, options |-> Undefined]

JsInit ==
    [status |-> "pending", done |-> {}, evaluated |-> {}, opts |-> EmptyBag,
     cls |-> NoClass, gname |-> Undefined, provider |-> NoProvider,
     ctl |-> EmptyBag, attached |-> ""]

\* the providers Control.Geocoder.js itself registers
BuiltinEntry ==
    [kind |-> "builtin", serviceUrl |-> Undefined, geocode |-> Native, target |-> ""]

BuiltinRegistry == [k \in Providers |-> BuiltinEntry]

(***************************************************************************)
(* Build side.                                                             *)
(***************************************************************************)
Init ==
    /\ controls = <<>>
    /\ fragment = <<>>
    /\ failed = <<>>
    /\ phase = "build"
    /\ cur = 0
    /\ pc = 0
    /\ js = <<>>
    /\ registry = BuiltinRegistry

UsedIds == { controls[i].id : i \in 1..Len(controls) }

\* Geocoder(**cfg): super().__init__() draws the identifier, then the bag is
\* built; a call that raises builds no control
Construct(cfg) ==
    /\ phase = "build"
    /\ Len(controls) < MaxControls
    /\ ~DuplicateKeyword(cfg)
    /\ \E id \in Ids \ UsedIds :
         controls' = Append(controls,
                            [id |-> id, name |-> "Geocoder",
                             options |-> Options(cfg), cfg |-> cfg])
    /\ fragment' = Append(fragment, NoFragment)
    /\ failed' = Append(failed, FALSE)
    /\ js' = Append(js, JsInit)
    /\ UNCHANGED <<phase, cur, pc, registry>>

\* Render, were the provider stored in self.options as the script stores it in
\* geocoderOpts
RenderMutatingOptions(i, parent) ==
    /\ phase = "build"
    /\ i \in 1..Len(controls)
    /\ fragment' = [fragment EXCEPT ![i] = <<Template(controls[i], parent)>>]
    /\ controls' = [controls EXCEPT
                      ![i].options = ("geocoder" :> PyStr(parent)) @@ @]
    /\ UNCHANGED <<failed, phase, cur, pc, js, registry>>

\* Render, were the fragments gathered so far dropped when the encoding raises
RenderAbortingPage(i, parent) ==
    /\ phase = "build"
    /\ i \in 1..Len(controls)
    /\ IF Serializable(controls[i].options)
       THEN /\ fragment' = [fragment EXCEPT ![i] = <<Template(controls[i], parent)>>]
            /\ UNCHANGED failed
       ELSE /\ failed' = [failed EXCEPT ![i] = TRUE]
            /\ fragment' = [j \in 1..Len(fragment) |-> NoFragment]
    /\ UNCHANGED <<controls, phase, cur, pc, js, registry>>

\* Render, were serviceUrl without geocodeFunction (or the reverse) refused
RenderValidating(i, parent) ==
    /\ phase = "build"
    /\ i \in 1..Len(controls)
    /\ IF /\ Serializable(controls[i].options)
          /\ ("serviceUrl" \in DOMAIN controls[i].options)
               <=> ("geocodeFunction" \in DOMAIN controls[i].options)
       THEN /\ fragment' = [fragment EXCEPT ![i] = <<Template(controls[i], parent)>>]
            /\ UNCHANGED failed
       ELSE /\ failed' = [failed EXCEPT ![i] = TRUE]
            /\ UNCHANGED fragment
    /\ UNCHANGED <<controls, phase, cur, pc, js, registry>>

\* the script macro applied to the control and its parent; tojson raises
\* before the macro returns any text
Render(i, parent) ==
    /\ phase = "build"
    /\ i \in 1..Len(controls)
    /\ IF Serializable(controls[i].options)
       THEN /\ fragment' = [fragment EXCEPT ![i] = <<Template(controls[i], parent)>>]
            /\ UNCHANGED failed
       ELSE /\ failed' = [failed EXCEPT ![i] = TRUE]
            /\ UNCHANGED fragment
    /\ UNCHANGED <<controls, phase, cur, pc, js, registry>>

\* the page is written and opened: its script starts running
LoadPage ==
    /\ phase = "build"
    /\ phase' = "run"
    /\ UNCHANGED <<controls, fragment, failed, cur, pc, js, registry>>

(***************************************************************************)
(* Page side: the statements of one fragment, in the order of the          *)
(* template.  The script engine runs one fragment at a time to its end.    *)
(***************************************************************************)
\* the statements, were the class defined before the two evaluations
StepOrderTemplateFirst ==
    << "declare", "template", "evalGeocode", "evalResults", "extend", "name",
       "provider", "geocoder", "attach" >>

StepOrder ==
    << "declare", "evalGeocode", "evalResults", "template", "extend", "name",
       "provider", "geocoder", "attach" >>

\* the running fragment stands before statement step
At(step) == phase = "run" /\ cur # 0 /\ StepOrder[pc] = step

\* statement step of the running fragment has run, leaving its variables as j
Advance(step, j) ==
    LET last == pc = Len(StepOrder)
    IN  /\ js' = [js EXCEPT ![cur] =
                    [j EXCEPT !.done = @ \cup {step},
                              !.status = IF last THEN "done" ELSE "running"]]
        /\ pc' = IF last THEN 0 ELSE pc + 1
        /\ cur' = IF last THEN 0 ELSE cur

\* var geocoderOpts_<name> = <the JSON text of the bag>;
\* the first statement of a fragment that has not run yet
DeclareOpts ==
    /\ phase = "run"
    /\ cur = 0
    /\ \E i \in 1..Len(controls) :
         /\ Emitted(i)
         /\ js[i].status = "pending"
         /\ js' = [js EXCEPT ![i].opts = fragment[i][1].opts,
                             ![i].done = {"declare"},
                             ![i].status = "running"]
         /\ cur' = i
    /\ pc' = 2
    /\ UNCHANGED <<controls, fragment, failed, phase, registry>>

\* if ('geocodeFunction' in opts) { eval("opts['geocodeFunction'] = " + opts['geocodeFunction']); }
EvalGeocodeFunction ==
    /\ At("evalGeocode")
    /\ LET j == js[cur]
       IN  IF "geocodeFunction" \in DOMAIN j.opts
           THEN Advance("evalGeocode",
                        [j EXCEPT !.opts["geocodeFunction"] = Eval(@),
                                  !.evaluated = @ \cup {"geocodeFunction"}])
           ELSE Advance("evalGeocode", j)
    /\ UNCHANGED <<controls, fragment, failed, phase, registry>>

\* if ('resultsHandlerFunction' in opts) { eval(...); }
EvalResultsHandler ==
    /\ At("evalResults")
    /\ LET j == js[cur]
       IN  IF "resultsHandlerFunction" \in DOMAIN j.opts
           THEN Advance("evalResults",
                        [j EXCEPT !.opts["resultsHandlerFunction"] = Eval(@),
                                  !.evaluated = @ \cup {"resultsHandlerFunction"}])
           ELSE Advance("evalResults", j)
    /\ UNCHANGED <<controls, fragment, failed, phase, registry>>

\* var customGeocoderTemplate_<name> = { class: L.Class.extend({...}), factory: ... }
\* the class reads opts['serviceUrl'] and opts['geocodeFunction'] as it is defined
DefineTemplate ==
    /\ At("template")
    /\ LET j == js[cur]
       IN  Advance("template",
                   [j EXCEPT !.cls = [serviceUrl |-> Get(j.opts, "serviceUrl"),
                                      geocode |-> Get(j.opts, "geocodeFunction")]])
    /\ UNCHANGED <<controls, fragment, failed, phase, registry>>

\* Extended, were the registry extended only on the custom path
ExtendedOnlyForServiceUrl(reg, name, j) ==
    IF "serviceUrl" \in DOMAIN j.opts
    THEN (ClassKey(name) :>
             [kind |-> "class", serviceUrl |-> j.cls.serviceUrl,
              geocode |-> j.cls.geocode, target |-> ""])
         @@ (FactoryKey(name) :>
             [kind |-> "factory", serviceUrl |-> Undefined,
              geocode |-> Undefined, target |-> ClassKey(name)])
         @@ reg
    ELSE reg

\* the registry after L.Util.extend(L.Control.Geocoder, {Custom_<name>: ..., custom_<name>: ...})
Extended(reg, name, j) ==
    (ClassKey(name) :>
        [kind |-> "class", serviceUrl |-> j.cls.serviceUrl,
         geocode |-> j.cls.geocode, target |-> ""])
    @@ (FactoryKey(name) :>
        [kind |-> "factory", serviceUrl |-> Undefined,
         geocode |-> Undefined, target |-> ClassKey(name)])
    @@ reg

\* L.Util.extend(L.Control.Geocoder, {...}): not under any condition
ExtendRegistry ==
    /\ At("extend")
    /\ registry' = Extended(registry, fragment[cur][1].name, js[cur])
    /\ Advance("extend", js[cur])
    /\ UNCHANGED <<controls, fragment, failed, phase>>

\* GeocoderName, were geocodeFunction the discriminator
GeocoderNameByFunction(name, opts) ==
    IF "geocodeFunction" \in DOMAIN opts
    THEN <<"string", FactoryKey(name)>>
    ELSE Get(opts, "geocodeProvider")

\* the value of geocoderName_<name> after the if/else on 'serviceUrl' in opts
GeocoderName(name, opts) ==
    IF "serviceUrl" \in DOMAIN opts
    THEN <<"string", FactoryKey(name)>>
    ELSE Get(opts, "geocodeProvider")

ChooseName ==
    /\ At("name")
    /\ Advance("name",
               [js[cur] EXCEPT !.gname = GeocoderName(fragment[cur][1].name, js[cur].opts)])
    /\ UNCHANGED <<controls, fragment, failed, phase, registry>>

\* L.Control.Geocoder[name](options): what the registry entry returns
Provide(reg, key, options) ==
    IF reg[key].kind = "factory"
    THEN [via |-> key, cls |-> reg[key].target,
          geocode |-> reg[reg[key].target].geocode, options |-> options]
    ELSE [via |-> key, cls |-> "", geocode |-> reg[key].geocode, options |-> options]

\* var customGeocoder_<name> = L.Control.Geocoder[geocoderName_<name>](opts['geocodeProviderOptions']);
\* a name the registry does not hold is a TypeError: the script stops there
CreateProvider ==
    /\ At("provider")
    /\ LET j == js[cur]
       IN  IF j.gname[1] = "string" /\ j.gname[2] \in DOMAIN registry
           THEN /\ Advance("provider",
                           [j EXCEPT !.provider =
                              Provide(registry, j.gname[2],
                                      Get(j.opts, "geocodeProviderOptions"))])
                /\ UNCHANGED phase
           ELSE /\ js' = [js EXCEPT ![cur].status = "error"]
                /\ phase' = "halted"
                /\ UNCHANGED <<cur, pc>>
    /\ UNCHANGED <<controls, fragment, failed, registry>>

\* geocoderOpts_<name>["geocoder"] = customGeocoder_<name>;
SetGeocoder ==
    /\ At("geocoder")
    /\ LET j == js[cur]
       IN  Advance("geocoder",
                   [j EXCEPT !.opts = ("geocoder" :> <<"provider", j.provider.via>>) @@ @])
    /\ UNCHANGED <<controls, fragment, failed, phase, registry>>

\* L.Control.geocoder(opts).on('markgeocode', ...).addTo(<parent>);
AttachControl ==
    /\ At("attach")
    /\ LET j == js[cur]
       IN  Advance("attach",
                   [j EXCEPT !.ctl = j.opts, !.attached = fragment[cur][1].parent])
    /\ UNCHANGED <<controls, fragment, failed, phase, registry>>

(***************************************************************************)
(* Specifications.                                                         *)
(***************************************************************************)
\* a page of up to MaxControls controls
ConstructOnPage == Len(controls) < MaxControls /\ \E cfg \in PageConfigs : Construct(cfg)

Next ==
    \/ ConstructOnPage
    \/ \E i \in 1..Len(controls), p \in Parents : Render(i, p)
    \/ LoadPage
    \/ DeclareOpts
    \/ EvalGeocodeFunction
    \/ EvalResultsHandler
    \/ DefineTemplate
    \/ ExtendRegistry
    \/ ChooseName
    \/ CreateProvider
    \/ SetGeocoder
    \/ AttachControl

Spec == Init /\ [][Next]_vars

\* one control, any named arguments, its fragment run statement by statement
ConstructControl == Len(controls) = 0 /\ \E cfg \in ControlConfigs : Construct(cfg)

NextControl ==
    \/ ConstructControl
    \/ \E i \in 1..Len(controls), p \in Parents : Render(i, p)
    \/ LoadPage
    \/ DeclareOpts
    \/ EvalGeocodeFunction
    \/ EvalResultsHandler
    \/ DefineTemplate
    \/ ExtendRegistry
    \/ ChooseName
    \/ CreateProvider
    \/ SetGeocoder
    \/ AttachControl

SpecControl == Init /\ [][NextControl]_vars

\* one constructor call, any arguments and extra keywords, and its rendering
ConstructAny == Len(controls) = 0 /\ \E cfg \in Configs : Construct(cfg)

NextConstruct ==
    \/ ConstructAny
    \/ \E i \in 1..Len(controls), p \in Parents : Render(i, p)

SpecConstruct == Init /\ [][NextConstruct]_vars

(***************************************************************************)
(* The options bag (SpecConstruct).                                        *)
(***************************************************************************)
Built == 1..Len(controls)

DefaultBag ==
    ("collapsed" :> PyBool(FALSE)) @@ ("position" :> PyStr("topright"))
    @@ ("defaultMarkGeocode" :> PyBool(TRUE)) @@ ("geocodeProvider" :> PyStr("nominatim"))

OptionalKeys ==
    {"serviceUrl", "geocodeFunction", "resultsHandlerFunction", "geocodeProviderOptions"}

\* the caller gave an extra keyword that is camel-cased to key, with a value
Aliased(cfg, key) ==
    \E a \in 1..Len(cfg.kwargs) :
      Camelize(cfg.kwargs[a][1]) = key /\ cfg.kwargs[a][2] # None

\* the caller gave key a non-null value: as the argument of that name, or as an
\* extra keyword that is camel-cased to it (service_url for serviceUrl)
SuppliedFor(cfg, key) == cfg[key] # None \/ Aliased(cfg, key)

C4_PositionInAcceptedSet ==
    \A i \in Built :
      /\ "position" \in DOMAIN controls[i].options
      /\ controls[i].options["position"] \in {PyStr(p) : p \in Positions}

\* C4 as amended: the constructor does not validate position; the control is
\* built and its bag holds the position exactly as the caller supplied it.
C4_PositionStoredAsSupplied ==
    \A i \in Built :
      /\ "position" \in DOMAIN controls[i].options
      /\ ~Aliased(controls[i].cfg, "position") =>
           controls[i].options["position"] = controls[i].cfg.position

C4_Witness ==
    \E i \in Built :
      /\ controls[i].cfg.position = PyStr("center")
      /\ controls[i].options["position"] = PyStr("center")
      /\ Emitted(i)

WrittenLater(cfg, a) ==
    \/ \E b \in (a + 1)..Len(cfg.kwargs) :
         /\ Camelize(cfg.kwargs[b][1]) = Camelize(cfg.kwargs[a][1])
         /\ cfg.kwargs[b][2] # None
    \/ /\ Camelize(cfg.kwargs[a][1]) = "geocodeProviderOptions"
       /\ cfg.geocodeProviderOptions # None

Ran(i, step) == step \in js[i].done

Finished(i) == js[i].status = "done"

\* C1: once the fragment has chosen its provider name, the name is custom_<name
\* of this control> if serviceUrl is in the bag and the value of geocodeProvider
\* if it is not, whether or not geocodeFunction is in the bag; the provider
\* instance is the one the registry gives for that name, by one path only, and
\* it is the one handed to the control.
C1_ProviderPath ==
    \A i \in Built :
      LET o      == controls[i].options
          own    == "custom_geocoder_" \o controls[i].id
          custom == "serviceUrl" \in DOMAIN o
      IN  /\ Ran(i, "name") =>
               js[i].gname = <<"string", IF custom THEN own ELSE o["geocodeProvider"][2]>>
          /\ Ran(i, "provider") =>
               /\ js[i].provider.via = js[i].gname[2]
               /\ custom <=> js[i].provider.cls = "Custom_geocoder_" \o controls[i].id
               /\ ~custom <=> js[i].provider.cls = ""
          /\ Ran(i, "attach") => js[i].ctl["geocoder"] = <<"provider", js[i].gname[2]>>

C1_Witness ==
    \E i \in Built :
      /\ Finished(i)
      /\ "serviceUrl" \in DOMAIN controls[i].options
      /\ "geocodeFunction" \notin DOMAIN controls[i].options
      /\ controls[i].options["geocodeProvider"] = PyStr("photon")
      /\ js[i].provider.via = "custom_geocoder_" \o controls[i].id

\* serviceUrl without geocodeFunction, or geocodeFunction without serviceUrl
Inconsistent(o) == ("serviceUrl" \in DOMAIN o) # ("geocodeFunction" \in DOMAIN o)

\* C3 as claimed: no fragment is emitted for a control whose custom-provider
\* fields are inconsistently supplied.
C3_InconsistentNotEmitted ==
    \A i \in Built : Inconsistent(controls[i].options) => ~Emitted(i)

\* C3 as amended: inconsistent custom-provider fields raise nothing when the
\* control is built or rendered (rendering fails only for a value that cannot be
\* encoded); the fragment is emitted and runs to its end.  With serviceUrl and no
\* geocodeFunction the custom provider is registered and selected with an
\* undefined geocode; with geocodeFunction and no serviceUrl the function is
\* evaluated and the provider named by geocodeProvider is selected.
C3_InconsistencyDeferred ==
    \A i \in Built :
      LET o    == controls[i].options
          name == "geocoder_" \o controls[i].id
      IN  /\ failed[i] => ~Serializable(o)
          /\ failed[i] => ~Emitted(i)
          /\ (Finished(i) /\ "serviceUrl" \in DOMAIN o /\ "geocodeFunction" \notin DOMAIN o) =>
               /\ js[i].gname = <<"string", "custom_" \o name>>
               /\ registry["Custom_" \o name].geocode = Undefined
               /\ js[i].provider.geocode = Undefined
          /\ (Finished(i) /\ "geocodeFunction" \in DOMAIN o /\ "serviceUrl" \notin DOMAIN o) =>
               /\ js[i].gname = <<"string", o["geocodeProvider"][2]>>
               /\ "geocodeFunction" \in js[i].evaluated
               /\ js[i].provider.geocode = Native

C3_Witness ==
    \E i \in Built :
      /\ "serviceUrl" \in DOMAIN controls[i].options
      /\ "geocodeFunction" \notin DOMAIN controls[i].options
      /\ ~failed[i]
      /\ Emitted(i)
      /\ Finished(i)
      /\ js[i].attached = fragment[i][1].parent

\* C6: a step that renders leaves every control as it was, and a control
\* rendered again for the same parent gets the same fragment text.
C6_RenderIdempotent ==
    [][ \A i \in Built :
          /\ (fragment'[i] # fragment[i] \/ failed'[i] # failed[i]) => controls' = controls
          /\ (Emitted(i) /\ fragment'[i] # NoFragment
                /\ fragment'[i][1].parent = fragment[i][1].parent) =>
               fragment'[i] = fragment[i] ]_vars

C6_Witness ==
    \E i \in Built :
      /\ Emitted(i)
      /\ fragment[i][1].opts = JsonOf(controls[i].options)
      /\ "geocodeFunction" \in DOMAIN controls[i].options
      /\ ENABLED Render(i, fragment[i][1].parent)

FunctionKeys == {"geocodeFunction", "resultsHandlerFunction"}

\* C7: a function entry of the bag is a callable from the first statement that
\* uses the options on: the class definition captures the callable, and the
\* provider and the control are created with it; an entry that is absent is
\* never evaluated; the bag and the fragment text themselves only ever hold the
\* source text.
C7_EvaluatedBeforeUse ==
    \A i \in Built :
      LET o == controls[i].options
          j == js[i]
      IN  /\ \A k \in DOMAIN o : o[k][1] # "function"
          /\ Emitted(i) => \A k \in DOMAIN fragment[i][1].opts :
                             fragment[i][1].opts[k][1] # "function"
          /\ j.evaluated \subseteq FunctionKeys \cap DOMAIN o
          /\ \A k \in FunctionKeys \cap DOMAIN o :
               /\ (Ran(i, "template") \/ Ran(i, "provider")) =>
                    j.opts[k] = <<"function", o[k][2]>>
               /\ Ran(i, "attach") => j.ctl[k] = <<"function", o[k][2]>>
          /\ ("geocodeFunction" \in DOMAIN o /\ Ran(i, "template")) =>
               j.cls.geocode = <<"function", o["geocodeFunction"][2]>>
          /\ ("geocodeFunction" \in DOMAIN o /\ "serviceUrl" \in DOMAIN o
                /\ Ran(i, "provider")) =>
               j.provider.geocode = <<"function", o["geocodeFunction"][2]>>

C7_Witness ==
    \E i \in Built :
      /\ Finished(i)
      /\ FunctionKeys \subseteq DOMAIN controls[i].options
      /\ "serviceUrl" \in DOMAIN controls[i].options
      /\ js[i].evaluated = FunctionKeys

C9_State ==
    /\ \A i \in Built :
         /\ failed[i] => ~Emitted(i)
         /\ Emitted(i) => fragment[i][1] = Template(controls[i], fragment[i][1].parent)
         /\ (phase = "build" /\ Serializable(controls[i].options)) =>
              \A p \in Parents : ENABLED (Render(i, p) /\ fragment'[i] # NoFragment)
    /\ (phase = "build" /\ Len(controls) < MaxControls) => ENABLED ConstructOnPage

\* C9, in every step: the step in which the rendering of one control raises
\* changes nothing of any other control.
C9_Step ==
    \A i \in Built :
      (failed'[i] /\ ~failed[i]) =>
        \A k \in Built \ {i} :
          /\ controls'[k] = controls[k]
          /\ fragment'[k] = fragment[k]
          /\ failed'[k] = failed[k]

Extending == {i \in Built : Ran(i, "extend")}

\* C10 as claimed: a fragment has written its keys to the registry exactly when
\* serviceUrl is in its bag.
C10_RegisteredOnlyForServiceUrl ==
    \A i \in Built :
      Ran(i, "extend") =>
        (RegistryKeys(controls[i]) \subseteq DOMAIN registry
           <=> "serviceUrl" \in DOMAIN controls[i].options)

\* C10 as amended: every fragment, on the built-in path as on the custom path,
\* adds the two entries keyed by its own control's name and nothing else: the
\* registry holds the built-in entries unchanged and, for every fragment that
\* has extended it, that fragment's class and factory, built from its own bag.
C10_RegisteredByEveryFragment ==
    /\ DOMAIN registry =
         Providers \cup UNION { { "Custom_geocoder_" \o controls[i].id,
                                  "custom_geocoder_" \o controls[i].id } : i \in Extending }
    /\ \A k \in Providers : registry[k] = BuiltinEntry
    /\ \A i \in Extending :
         LET o == controls[i].options
         IN  /\ registry["Custom_geocoder_" \o controls[i].id] =
                  [kind |-> "class",
                   serviceUrl |-> IF "serviceUrl" \in DOMAIN o
                                  THEN <<"string", o["serviceUrl"][2]>> ELSE Undefined,
                   geocode |-> IF "geocodeFunction" \in DOMAIN o
                               THEN <<"function", o["geocodeFunction"][2]>> ELSE Undefined,
                   target |-> ""]
             /\ registry["custom_geocoder_" \o controls[i].id] =
                  [kind |-> "factory", serviceUrl |-> Undefined, geocode |-> Undefined,
                   target |-> "Custom_geocoder_" \o controls[i].id]

C10_Witness ==
    \E i, k \in Built :
      /\ Finished(i)
      /\ Finished(k)
      /\ "serviceUrl" \notin DOMAIN controls[i].options
      /\ "serviceUrl" \in DOMAIN controls[k].options
      /\ RegistryKeys(controls[i]) \cup RegistryKeys(controls[k]) \subseteq DOMAIN registry

====
